---- MODULE Spec2Model ----
(***************************************************************************)
(* The Nek5000 install recipe (var/spack/repos/builtin/packages/nek5000/   *)
(* package.py) as a state machine: the MAXNEL validator is_integral, the   *)
(* run_before hook fortran_check, the body of install (edits of            *)
(* tools/maketools, the maketools invocations, edits of bin/makenek, the   *)
(* two install_tree copies) and the run_after hook test_install.           *)
(***************************************************************************)
EXTENDS Integers, Sequences, FiniteSets, TLC

VARIABLES
    MAXNEL,       \* the value handed to the MAXNEL variant (a Python value)
    result,       \* what is_integral returned for it: "pending" before the call
    spec,         \* the concretized spec: variants, tools, version, compiler flags
    compiler,     \* self.compiler: f77 and cc paths ("None" when absent)
    pc,           \* position of the installation
    toolIdx,      \* which of the eight tool statements of install is next
    files,        \* the vendored scripts, file -> placeholder -> line
    present,      \* the script files that exist in the stage
    invoked,      \* the arguments of the maketools invocations, in order
    makenekRuns,  \* number of os.system(makenek) calls
    prefix,       \* the trees copied under the prefix
    cwd,          \* os.getcwd()
    testStartDir, \* currentDir of test_install
    error,        \* the exception that ended the installation, or "none"
    phases        \* the phases that have run, in order

vars == <<MAXNEL, result, spec, compiler, pc, toolIdx, files, present, invoked,
          makenekRuns, prefix, cwd, testStartDir, error, phases>>

----------------------------------------------------------------------------
(* Bounds of the model *)

\* longest text tried as a MAXNEL string by the validator specification
MaxLen == 3
\* integers and booleans-as-integers tried by the validator: -MaxAbs..MaxAbs
MaxAbs == 3
\* floats are tried in tenths, -MaxTenths..MaxTenths
MaxTenths == 25
\* longest list of extra compiler flags (fflags, cflags)
MaxFlags == 1

----------------------------------------------------------------------------
(* Python values and is_integral *)

Digits == <<"0", "1", "5">>
DigitSet == {Digits[i] : i \in 1..Len(Digits)}
DigitValue(c) == CASE c = "0" -> 0 [] c = "1" -> 1 [] c = "5" -> 5
Chars == DigitSet \cup {"-", ".", "a"}

Value(kind, n, text) == [kind |-> kind, n |-> n, text |-> text]
Str(text) == Value("str", 0, text)
Int_(n) == Value("int", n, <<>>)
Bool_(b) == Value("bool", IF b THEN 1 ELSE 0, <<>>)
Float_(tenths) == Value("float", tenths, <<>>)
None_ == Value("None", 0, <<>>)

RECURSIVE DigitsValue(_)
DigitsValue(s) ==
    IF s = <<>> THEN 0
    ELSE 10 * DigitsValue(SubSeq(s, 1, Len(s) - 1)) + DigitValue(s[Len(s)])

\* the text is an optional sign followed by at least one digit
IsIntLiteral(s) ==
    LET body == IF s # <<>> /\ s[1] = "-" THEN Tail(s) ELSE s
    IN  body # <<>> /\ \A i \in 1..Len(body) : body[i] \in DigitSet

\* Python's int(x): the integer, or the exception it raises
int(x) ==
    CASE x.kind = "int"   -> [exc |-> "none", v |-> x.n]
      [] x.kind = "bool"  -> [exc |-> "none", v |-> x.n]
      [] x.kind = "float" ->
            [exc |-> "none",
             v |-> IF x.n >= 0 THEN x.n \div 10 ELSE -((-x.n) \div 10)]
      [] x.kind = "str"   ->
            IF IsIntLiteral(x.text)
            THEN [exc |-> "none",
                  v |-> IF x.text[1] = "-" THEN -DigitsValue(Tail(x.text))
                        ELSE DigitsValue(x.text)]
            ELSE [exc |-> "ValueError", v |-> 0]
      [] x.kind = "None"  -> [exc |-> "TypeError", v |-> 0]

\* a plausible slip: the sign test dropped
is_integral_AnyInteger(x) ==
    LET i == int(x)
    IN  IF i.exc = "ValueError" THEN "False"
        ELSE IF i.exc # "none" THEN i.exc
        ELSE IF x.kind # "bool" THEN "True" ELSE "False"

\* is_integral(x): "True", "False", or the exception that escapes it
is_integral(x) ==
    LET i == int(x)
    IN  IF i.exc = "ValueError" THEN "False"
        ELSE IF i.exc # "none" THEN i.exc
        ELSE IF x.kind # "bool" /\ i.v > 0 THEN "True" ELSE "False"

RECURSIVE Texts(_)
Texts(n) ==
    IF n = 0 THEN {<<>>}
    ELSE Texts(n - 1) \cup {Append(t, c) : t \in Texts(n - 1), c \in Chars}

PythonValues ==
    {Int_(n) : n \in -MaxAbs..MaxAbs}
    \cup {Bool_(b) : b \in BOOLEAN}
    \cup {Float_(t) : t \in -MaxTenths..MaxTenths}
    \cup {Str(t) : t \in Texts(MaxLen)}
    \cup {None_}

----------------------------------------------------------------------------
(* The recipe's declarations *)

\* a version: its text and its segments; a letter segment is coded as a
\* negative number (beta = -1), so that a number is newer than a letter
Ver(name, segs) == [name |-> name, segs |-> segs]
V16 == Ver("16.0", <<16, 0>>)
V17 == Ver("17.0", <<17, 0>>)
V17beta2 == Ver("17.0.0-beta2", <<17, 0, 0, -1, 2>>)
Vdevelop == Ver("develop", <<>>)
DeclaredVersions == {V17, Vdevelop}
Versions == DeclaredVersions \cup {V16, V17beta2}

isdevelop(v) == v.name = "develop"

RECURSIVE SegsLT(_, _)
SegsLT(a, b) ==
    IF a = <<>> \/ b = <<>> THEN Len(a) < Len(b)
    ELSE IF Head(a) = Head(b) THEN SegsLT(Tail(a), Tail(b))
    ELSE Head(a) < Head(b)

VersionLT(a, b) ==
    IF a.segs = b.segs /\ a.name = b.name THEN FALSE
    ELSE IF isdevelop(b) THEN TRUE
    ELSE IF isdevelop(a) THEN FALSE
    ELSE SegsLT(a.segs, b.segs)

VersionGE(a, b) == ~VersionLT(a, b)

ToolVariants == {"genbox", "int_tp", "n2to3", "postnek", "reatore2",
                 "genmap", "nekmerge", "prenek"}

DefaultMAXNEL == Str(<<"1", "5", "0", "0", "0", "0">>)

\* MAXNEL values a user can put in a spec: variant values are strings
MaxnelRequests ==
    {DefaultMAXNEL, Str(<<"-", "5">>), Str(<<"0">>), Str(<<"a">>)}

RECURSIVE FlagLists(_)
FlagLists(n) ==
    IF n = 0 THEN {<<>>}
    ELSE FlagLists(n - 1) \cup {Append(l, "-O2") : l \in FlagLists(n - 1)}

\* ' '.join(flags): the flags in order (the separating blanks are implicit)
join(flags) == flags

----------------------------------------------------------------------------
(* The vendored scripts *)

Keys == {"FC", "CC", "FFLAGS", "CFLAGS", "MAXNEL", "MPI", "PROFILING",
         "VISIT", "VISIT_INSTALL", "SOURCE_ROOT"}
TextKeys == {"FFLAGS", "CFLAGS", "MAXNEL"}

\* a line "#KEY=..." as upstream ships it
Placeholder(k) ==
    [commented |-> TRUE, rhs |-> IF k \in TextKeys THEN <<>> ELSE ""]
UpstreamScript == [k \in Keys |-> Placeholder(k)]

MAKETOOLS == "tools/maketools"
MAKENEK == "bin/makenek"
BIN_MAKETOOLS == "bin/maketools"
FileNames == {MAKETOOLS, MAKENEK, BIN_MAKETOOLS}

\* filter_file(r'^#KEY...', 'KEY=rhs', file): rewrites the commented line;
\* no match is a silent no-op
filter_file(fs, file, k, rhs) ==
    [fs EXCEPT ![file][k] =
        IF @.commented THEN [commented |-> FALSE, rhs |-> rhs] ELSE @]

----------------------------------------------------------------------------
(* The installation *)

STAGE == "stage"
TOOLS_DIR == "stage/tools"
BIN_DIR == "stage/bin"
EDDY_DIR == "stage/short_tests/eddy"

\* the order of the phases of one installation attempt
PhaseNames == <<"validate", "fortran_check", "patch_tools", "build_tools",
                "patch_solver", "stage_install", "test_install">>

Specs ==
    [mpi : BOOLEAN, profiling : BOOLEAN, visit : BOOLEAN,
     tools : SUBSET ToolVariants, version : Versions,
     fflags : FlagLists(MaxFlags), cflags : FlagLists(MaxFlags)]

Compilers == [f77 : {"f77", "None"}, cc : {"cc"}]

Init ==
    /\ MAXNEL \in MaxnelRequests
    /\ result = "pending"
    /\ spec \in Specs
    /\ compiler \in Compilers
    /\ pc = "validate"
    /\ toolIdx = 1
    /\ files = [f \in FileNames |-> UpstreamScript]
    /\ present \in {{MAKETOOLS, MAKENEK}, FileNames}
    /\ invoked = <<>>
    /\ makenekRuns = 0
    /\ prefix = {}
    /\ cwd = STAGE
    /\ testStartDir = STAGE
    /\ error = "none"
    /\ phases = <<>>

\* an exception propagates to the top level and ends the installation
Raise(e) == pc' = "failed" /\ error' = e

\* variant('MAXNEL', values=is_integral): the request is validated before
\* any hook of the installation runs
Validate ==
    /\ pc = "validate"
    /\ result' = is_integral(MAXNEL)
    /\ phases' = Append(phases, "validate")
    /\ IF result' = "True" THEN pc' = "fortran_check" /\ error' = error
       ELSE IF result' = "False" THEN Raise("ConfigurationError")
       ELSE Raise(result')
    /\ UNCHANGED <<MAXNEL, spec, compiler, toolIdx, files, present, invoked,
                   makenekRuns, prefix, cwd, testStartDir>>

\* a plausible slip: the test inverted
fortran_check_Inverted ==
    /\ pc = "fortran_check"
    /\ phases' = Append(phases, "fortran_check")
    /\ IF compiler.f77 # "None"
       THEN Raise("RuntimeError: Cannot build Nek5000 without a Fortran 77 compiler.")
       ELSE pc' = "patch_tools" /\ error' = error
    /\ UNCHANGED <<MAXNEL, result, spec, compiler, toolIdx, files, present,
                   invoked, makenekRuns, prefix, cwd, testStartDir>>

\* @run_before('install') fortran_check
fortran_check ==
    /\ pc = "fortran_check"
    /\ phases' = Append(phases, "fortran_check")
    /\ IF compiler.f77 = "None"
       THEN Raise("RuntimeError: Cannot build Nek5000 without a Fortran 77 compiler.")
       ELSE pc' = "patch_tools" /\ error' = error
    /\ UNCHANGED <<MAXNEL, result, spec, compiler, toolIdx, files, present,
                   invoked, makenekRuns, prefix, cwd, testStartDir>>

\* install, lines 108-128: the edits of tools/maketools
MaketoolsEdits(fs) ==
    LET FC == compiler.f77
        CC == compiler.cc
        fflags == join(spec.fflags)
        cflags == join(spec.cflags)
        f1 == filter_file(fs, MAKETOOLS, "FC", FC)
        f2 == filter_file(f1, MAKETOOLS, "CC", CC)
        f3 == IF fflags # <<>>
              THEN filter_file(f2, MAKETOOLS, "FFLAGS", fflags) ELSE f2
        f4 == IF cflags # <<>>
              THEN filter_file(f3, MAKETOOLS, "CFLAGS", cflags) ELSE f3
    IN  filter_file(f4, MAKETOOLS, "MAXNEL", MAXNEL.text)

PatchTools ==
    /\ pc = "patch_tools"
    /\ phases' = Append(phases, "patch_tools")
    /\ cwd' = TOOLS_DIR
    /\ files' = MaketoolsEdits(files)
    /\ pc' = "build_tools"
    /\ UNCHANGED <<MAXNEL, result, spec, compiler, toolIdx, present, invoked,
                   makenekRuns, prefix, testStartDir, error>>

\* a plausible slip: two tool statements in the other order
ToolSteps_Swapped ==
    <<"genbox", "n2to3", "int_tp", "postnek", "reatore2", "genmap",
      "nekmerge", "prenek">>

\* install, lines 133-148: the tool statements in the order they are written
ToolSteps ==
    <<"genbox", "int_tp", "n2to3", "postnek", "reatore2", "genmap",
      "nekmerge", "prenek">>

\* a plausible slip: the version test of int_tp dropped
ToolCondition_NoVersionGate(t) == t \in spec.tools

\* the condition of the statement that builds tool t
ToolCondition(t) ==
    /\ t \in spec.tools
    /\ t = "int_tp" => spec.version = V17beta2

\* the next tool statement; after the last one the with-block of the tools
\* directory ends
NextToolStatement ==
    /\ toolIdx' = toolIdx + 1
    /\ IF toolIdx = Len(ToolSteps)
       THEN pc' = "patch_solver" /\ cwd' = STAGE
       ELSE pc' = pc /\ cwd' = cwd

\* a plausible slip: the exit status of maketools ignored
makeTools_ExitIgnored(t, exit) ==
    /\ invoked' = Append(invoked, t)
    /\ error' = IF exit = 0 THEN error ELSE "ProcessError"
    /\ NextToolStatement

\* makeTools(t): a blocking call of ./maketools; a non-zero exit raises
makeTools(t, exit) ==
    /\ invoked' = Append(invoked, t)
    /\ IF exit = 0
       THEN NextToolStatement /\ error' = error
       ELSE Raise("ProcessError") /\ UNCHANGED <<toolIdx, cwd>>

BuildTool ==
    /\ pc = "build_tools"
    /\ phases' = IF toolIdx = 1 THEN Append(phases, "build_tools") ELSE phases
    /\ LET t == ToolSteps[toolIdx]
       IN  IF ToolCondition(t)
           THEN \E exit \in {0, 1} : makeTools(t, exit)
           ELSE NextToolStatement /\ UNCHANGED <<invoked, error>>
    /\ UNCHANGED <<MAXNEL, result, spec, compiler, files, present, makenekRuns,
                   prefix, testStartDir>>

\* a plausible slip: the MPI wrappers never taken
SolverCompilers_Direct == [FC |-> compiler.f77, CC |-> compiler.cc]

\* install, lines 108-109 and 151-153: FC and CC as the bin block uses them
SolverCompilers ==
    IF spec.mpi THEN [FC |-> "mpif77", CC |-> "mpicc"]
    ELSE [FC |-> compiler.f77, CC |-> compiler.cc]

\* a plausible slip: the MPI=0 line activated when mpi is requested
DisableMpi_Inverted(fs) ==
    IF spec.mpi THEN filter_file(fs, MAKENEK, "MPI", "0") ELSE fs

\* install, lines 151-155: the else branch of the mpi test
DisableMpi(fs) ==
    IF spec.mpi THEN fs ELSE filter_file(fs, MAKENEK, "MPI", "0")

\* install, lines 157-171: the remaining edits of bin/makenek
MakenekEdits(fs) ==
    LET f1 == DisableMpi(fs)
        f2 == IF ~spec.profiling
              THEN filter_file(f1, MAKENEK, "PROFILING", "0") ELSE f1
        f3 == IF spec.visit
              THEN filter_file(filter_file(f2, MAKENEK, "VISIT", "1"),
                               MAKENEK, "VISIT_INSTALL", "visit.prefix.bin")
              ELSE f2
    IN  IF VersionGE(spec.version, V17)
        THEN filter_file(
                 filter_file(
                     filter_file(f3, MAKENEK, "FC", SolverCompilers.FC),
                     MAKENEK, "CC", SolverCompilers.CC),
                 MAKENEK, "SOURCE_ROOT", "prefix.bin.Nek5000")
        ELSE f3

\* install, lines 172-177: inside the bin directory the flag edits name the
\* file 'maketools', that is bin/maketools
SolverFlagsWanted ==
    /\ VersionGE(spec.version, V17)
    /\ join(spec.fflags) # <<>> \/ join(spec.cflags) # <<>>

SolverFlagEdits(fs) ==
    LET fflags == join(spec.fflags)
        cflags == join(spec.cflags)
        f1 == IF fflags # <<>>
              THEN filter_file(fs, BIN_MAKETOOLS, "FFLAGS", fflags) ELSE fs
    IN  IF cflags # <<>>
        THEN filter_file(f1, BIN_MAKETOOLS, "CFLAGS", cflags) ELSE f1

PatchSolver ==
    /\ pc = "patch_solver"
    /\ phases' = Append(phases, "patch_solver")
    /\ IF SolverFlagsWanted /\ BIN_MAKETOOLS \notin present
       THEN \* filter_file copies the file first: a missing file raises
            /\ files' = MakenekEdits(files)
            /\ cwd' = BIN_DIR
            /\ Raise("IOError")
       ELSE /\ files' = IF SolverFlagsWanted
                        THEN SolverFlagEdits(MakenekEdits(files))
                        ELSE MakenekEdits(files)
            /\ cwd' = STAGE
            /\ pc' = "stage_install"
            /\ error' = error
    /\ UNCHANGED <<MAXNEL, result, spec, compiler, toolIdx, present, invoked,
                   makenekRuns, prefix, testStartDir>>

\* install, lines 179-183: the two install_tree copies
StageInstall ==
    /\ pc = "stage_install"
    /\ phases' = Append(phases, "stage_install")
    /\ prefix' = prefix \cup {"prefix/bin", "prefix/bin/Nek5000"}
    /\ pc' = "test_install"
    /\ UNCHANGED <<MAXNEL, result, spec, compiler, toolIdx, files, present,
                   invoked, makenekRuns, cwd, testStartDir, error>>

\* @run_after('install') test_install; built: whether the launcher left a
\* file nek5000 in the example directory
test_install ==
    /\ pc = "test_install"
    /\ phases' = Append(phases, "test_install")
    /\ testStartDir' = cwd
    /\ makenekRuns' = makenekRuns + 1
    /\ \E built \in BOOLEAN :
          IF built
          THEN cwd' = testStartDir' /\ pc' = "done" /\ error' = error
          ELSE /\ cwd' = EDDY_DIR
               /\ Raise("RuntimeError: Cannot build example: short_tests/eddy.")
    /\ UNCHANGED <<MAXNEL, result, spec, compiler, toolIdx, files, present,
                   invoked, prefix>>

Next ==
    \/ Validate
    \/ fortran_check
    \/ PatchTools
    \/ BuildTool
    \/ PatchSolver
    \/ StageInstall
    \/ test_install

Spec == Init /\ [][Next]_vars

\* the validator alone, on every kind of Python value
InitValidator ==
    /\ MAXNEL \in PythonValues
    /\ result = "pending"
    /\ spec = [mpi |-> TRUE, profiling |-> TRUE, visit |-> FALSE,
               tools |-> ToolVariants, version |-> V17,
               fflags |-> <<>>, cflags |-> <<>>]
    /\ compiler = [f77 |-> "f77", cc |-> "cc"]
    /\ pc = "validate"
    /\ toolIdx = 1
    /\ files = [f \in FileNames |-> UpstreamScript]
    /\ present = {MAKETOOLS, MAKENEK}
    /\ invoked = <<>>
    /\ makenekRuns = 0
    /\ prefix = {}
    /\ cwd = STAGE
    /\ testStartDir = STAGE
    /\ error = "none"
    /\ phases = <<>>

SpecValidator == InitValidator /\ [][Validate]_vars

----------------------------------------------------------------------------
(* Properties *)

Range(s) == {s[i] : i \in DOMAIN s}
IsPrefix(s, t) == Len(s) <= Len(t) /\ SubSeq(t, 1, Len(s)) = s
Ran(phase) == phase \in Range(phases)
Active(file, k, rhs) ==
    ~files[file][k].commented /\ files[file][k].rhs = rhs
Unpatched(file, k) == files[file][k].commented

F77_ERROR == "RuntimeError: Cannot build Nek5000 without a Fortran 77 compiler."

\* no script edited, no external process run, nothing copied
NoSideEffect ==
    /\ files = [f \in FileNames |-> UpstreamScript]
    /\ invoked = <<>>
    /\ makenekRuns = 0
    /\ prefix = {}

\* the versions at or above 17.0 among those modelled
AtOrAbove17 == {V17, V17beta2, Vdevelop}

\* C1: the phases run in the order validate, fortran_check, patch_tools,
\* build_tools, patch_solver, stage_install, test_install, each at most once
\* and one at a time; a run that completes has run them all; once an error
\* is raised no further phase runs (no retry)
C1_PhaseOrder ==
    /\ [](/\ IsPrefix(phases, PhaseNames)
          /\ pc = "done" => phases = PhaseNames /\ error = "none"
          /\ pc = "failed" <=> error # "none")
    /\ [][/\ error # "none" => phases' = phases
          /\ Len(phases') <= Len(phases) + 1]_vars

C1_Witness ==
    /\ pc = "failed"
    /\ error = "ProcessError"
    /\ phases = SubSeq(PhaseNames, 1, 4)
    /\ Len(invoked) >= 2

\* C2: a MAXNEL request that is not a positive integer (-5, 0, a) ends in a
\* configuration error, with no script patched, no external process invoked
\* and nothing copied into the prefix
InvalidRequests == {Str(<<"-", "5">>), Str(<<"0">>), Str(<<"a">>)}

C2_InvalidMaxnelNoSideEffect ==
    MAXNEL \in InvalidRequests =>
        /\ NoSideEffect
        /\ pc \in {"validate", "failed"}
        /\ pc = "failed" => error = "ConfigurationError"

C2_Witness ==
    /\ MAXNEL = Str(<<"-", "5">>)
    /\ pc = "failed"
    /\ error = "ConfigurationError"

\* C3 (as stated): is_integral returns true for every integer n > 0 and
\* returns false, raising nothing, for every n <= 0, every boolean, every
\* fractional number, every text that is no integer literal, and None
C3_AcceptsExactlyPositiveIntegers ==
    result # "pending" =>
        /\ MAXNEL.kind = "int" =>
              result = IF MAXNEL.n > 0 THEN "True" ELSE "False"
        /\ MAXNEL.kind = "bool" => result = "False"
        /\ MAXNEL.kind = "float" /\ MAXNEL.n % 10 # 0 => result = "False"
        /\ MAXNEL.kind = "str" /\ ~IsIntLiteral(MAXNEL.text) => result = "False"
        /\ MAXNEL.kind = "str" /\ IsIntLiteral(MAXNEL.text) =>
              result \in {"True", "False"}
        /\ MAXNEL.kind = "None" => result = "False"

\* C4 (as stated): with mpi enabled both scripts carry the MPI wrappers as
\* FC and CC, and MPI=0 is activated in no script
C4_WrappersInBothScripts ==
    spec.mpi =>
        /\ Ran("patch_tools") =>
              Active(MAKETOOLS, "FC", "mpif77") /\ Active(MAKETOOLS, "CC", "mpicc")
        /\ Ran("patch_solver") =>
              Active(MAKENEK, "FC", "mpif77") /\ Active(MAKENEK, "CC", "mpicc")
        /\ \A f \in FileNames : Unpatched(f, "MPI")

\* C4 (amended): with mpi enabled, makenek carries the MPI wrappers as FC
\* and CC when the version is at or above 17.0 and keeps its placeholders
\* below it, maketools carries the direct compilers, and MPI=0 is activated
\* in no script
C4_WrappersInMakenek ==
    spec.mpi =>
        /\ Ran("patch_tools") =>
              Active(MAKETOOLS, "FC", "f77") /\ Active(MAKETOOLS, "CC", "cc")
        /\ Ran("patch_solver") =>
              IF spec.version \in AtOrAbove17
              THEN Active(MAKENEK, "FC", "mpif77") /\ Active(MAKENEK, "CC", "mpicc")
              ELSE Unpatched(MAKENEK, "FC") /\ Unpatched(MAKENEK, "CC")
        /\ \A f \in FileNames : Unpatched(f, "MPI")

C4_Witness ==
    /\ spec.mpi
    /\ spec.version = V17
    /\ pc = "done"
    /\ Active(MAKENEK, "FC", "mpif77")
    /\ Active(MAKETOOLS, "FC", "f77")

\* C5 (as stated): with mpi disabled, for every version, both scripts carry
\* the direct compilers as FC and CC and MPI=0 is activated in makenek
C5_DirectCompilersEveryVersion ==
    ~spec.mpi =>
        /\ Ran("patch_tools") =>
              Active(MAKETOOLS, "FC", "f77") /\ Active(MAKETOOLS, "CC", "cc")
        /\ Ran("patch_solver") =>
              /\ Active(MAKENEK, "FC", "f77") /\ Active(MAKENEK, "CC", "cc")
              /\ Active(MAKENEK, "MPI", "0")

\* C5 (amended): with mpi disabled, maketools carries the direct compilers
\* and MPI=0 is activated in makenek for every version; makenek carries the
\* direct compilers as FC and CC when the version is at or above 17.0 and
\* keeps its placeholders below it
C5_DirectCompilersFrom17 ==
    ~spec.mpi =>
        /\ Ran("patch_tools") =>
              Active(MAKETOOLS, "FC", "f77") /\ Active(MAKETOOLS, "CC", "cc")
        /\ Ran("patch_solver") =>
              /\ IF spec.version \in AtOrAbove17
                 THEN Active(MAKENEK, "FC", "f77") /\ Active(MAKENEK, "CC", "cc")
                 ELSE Unpatched(MAKENEK, "FC") /\ Unpatched(MAKENEK, "CC")
              /\ Active(MAKENEK, "MPI", "0")

C5_Witness ==
    /\ ~spec.mpi
    /\ spec.version = Vdevelop
    /\ pc = "done"
    /\ Active(MAKENEK, "FC", "f77")
    /\ Active(MAKENEK, "MPI", "0")

\* C6: maketools is invoked for int_tp only if int_tp is requested and the
\* version is 17.0.0-beta2, and then exactly once as soon as the run is past
\* the int_tp statement; at the declared versions it is never invoked
IntTpInvocations == Cardinality({i \in DOMAIN invoked : invoked[i] = "int_tp"})

C6_IntTpGate ==
    LET wanted == "int_tp" \in spec.tools /\ spec.version.name = "17.0.0-beta2"
    IN  /\ IntTpInvocations > 0 => wanted
        /\ wanted /\ toolIdx > 2 => IntTpInvocations = 1
        /\ spec.version \in DeclaredVersions => IntTpInvocations = 0

C6_Witness ==
    /\ "int_tp" \in spec.tools
    /\ spec.version = V17beta2
    /\ IntTpInvocations = 1
    /\ pc = "done"

\* C7: in a run with no build failure the maketools invocations are exactly
\* genbox, int_tp, n2to3, postnek, reatore2, genmap, nekmerge, prenek
\* filtered to the enabled and eligible tools, in that order, each once;
\* until then they are a prefix of that list
Eligible(t) ==
    t \in spec.tools /\ (t = "int_tp" => spec.version.name = "17.0.0-beta2")

ExpectedInvocations ==
    SelectSeq(<<"genbox", "int_tp", "n2to3", "postnek", "reatore2", "genmap",
                "nekmerge", "prenek">>, Eligible)

C7_ToolOrder ==
    /\ IsPrefix(invoked, ExpectedInvocations)
    /\ toolIdx > 8 => invoked = ExpectedInvocations

C7_Witness ==
    /\ toolIdx > 8
    /\ spec.tools = {"prenek", "n2to3", "int_tp", "genmap"}
    /\ spec.version = V17beta2
    /\ invoked = <<"int_tp", "n2to3", "genmap", "prenek">>

\* C8 (as stated): in maketools and in makenek alike, the FFLAGS placeholder
\* is replaced iff the Fortran flags are non-empty and the CFLAGS
\* placeholder iff the C flags are non-empty
C8_FlagsInBothScripts ==
    Ran("patch_solver") =>
        \A f \in {MAKETOOLS, MAKENEK} :
            /\ ~Unpatched(f, "FFLAGS") <=> spec.fflags # <<>>
            /\ ~Unpatched(f, "CFLAGS") <=> spec.cflags # <<>>

\* C9 (as stated): whenever test_install has ended, by passing or by
\* raising, the current directory is the one it started in
C9_CwdRestored ==
    Ran("test_install") => cwd = testStartDir

\* C10: without a Fortran 77 compiler the installation ends in the error of
\* fortran_check, right after validation, with no script patched, no
\* process invoked and nothing copied; with one, fortran_check raises nothing
C10_FortranPreflight ==
    /\ compiler.f77 = "None" =>
          /\ NoSideEffect
          /\ pc \in {"validate", "fortran_check", "failed"}
          /\ pc = "failed" /\ result = "True" =>
                error = F77_ERROR /\ phases = <<"validate", "fortran_check">>
    /\ compiler.f77 # "None" =>
          /\ error # F77_ERROR
          /\ Ran("fortran_check") /\ Len(phases) = 2 => pc = "patch_tools"

C10_Witness ==
    /\ compiler.f77 = "None"
    /\ pc = "failed"
    /\ error = F77_ERROR

====
